---- MODULE Spec2Model ----
(***************************************************************************)
(* Model of the approximate title search of the movie database:           *)
(* calculate_distance, count_matches and search_movie of                  *)
(* src/movie_project.py (the same two helpers are repeated in src/run.py). *)
(*                                                                         *)
(* Strings are sequences of one-character strings.  Two specifications:    *)
(*   SpecFn  calls calculate_distance / count_matches on drawn arguments,  *)
(*   Spec    runs search_movie over a drawn catalog, one query at a time.  *)
(***************************************************************************)
EXTENDS Integers, Sequences, FiniteSets, Bags, TLC

VARIABLES string1, string2, called, ret, ret_matches, memo, previous_memo,
          movies, pc, user_query, results, similar_matches, idx,
          outcome, output, cmCalls, cdCalls,
          table, next_id, op, arg_title, arg_user, store_ret, db_error,
          listed, got

fnVars == <<string1, string2, called, ret, ret_matches, memo, previous_memo>>
searchVars == <<movies, pc, user_query, results, similar_matches, idx,
                outcome, output, cmCalls, cdCalls>>
storeVars == <<table, next_id, op, arg_title, arg_user, store_ret, db_error,
               listed, got>>
vars == <<string1, string2, called, ret, ret_matches, memo, previous_memo,
          movies, pc, user_query, results, similar_matches, idx,
          outcome, output, cmCalls, cdCalls,
          table, next_id, op, arg_title, arg_user, store_ret, db_error,
          listed, got>>

(***************************************************************************)
(* Bounds of the model.                                                    *)
(***************************************************************************)
\* longest argument drawn for a direct call of the two helpers
MaxStrLen == 4
\* longest title and longest typed query of a search
MaxLen == 3
\* largest catalog
MaxMovies == 2

\* characters of the directly called helpers' arguments
FnChars == {"a", "b", "c"}
\* characters of titles and of typed queries: two letters, one also in upper case
TitleChars == {"a", "b", "A"}
\* ratings a catalog entry may carry, in tenths
Ratings == {70, 90}
\* lengths of the long one-letter strings also drawn as helper arguments
LongLens == {62, 63, 90}

Min(x, y) == IF x <= y THEN x ELSE y
Max(x, y) == IF x >= y THEN x ELSE y

StringsOver(chars, lo, hi) == UNION {[1..k -> chars] : k \in lo..hi}
Rep(c, n) == [i \in 1..n |-> c]
LongStrings == {Rep("a", n) : n \in LongLens}
\* arguments drawn for calculate_distance, and for count_matches
DistInputs == StringsOver(FnChars, 0, MaxStrLen)
CountInputs == DistInputs \cup LongStrings

(***************************************************************************)
(* str.lower(), character by character.                                    *)
(***************************************************************************)
LowerChar(c) ==
    CASE c = "A" -> "a" [] c = "B" -> "b" [] c = "C" -> "c" [] c = "I" -> "i" [] OTHER -> c
lower(s) == [i \in 1..Len(s) |-> LowerChar(s[i])]

(***************************************************************************)
(* calculate_distance(string1, string2, memo): the memo dictionary is      *)
(* threaded through the recursive calls in the order the code makes them;  *)
(* the value is the pair of the returned number and the dictionary as the  *)
(* call leaves it.  The lookup precedes the base cases, and the base cases *)
(* store nothing.                                                          *)
(***************************************************************************)
EmptyMemo == <<>>
MemoPut(m, key, val) == (key :> val) @@ m

\* calculate_distance with the result stored under the key of the tails
RECURSIVE calculate_distance_TailKey(_, _, _)
calculate_distance_TailKey(s1, s2, m) ==
    IF <<s1, s2>> \in DOMAIN m THEN [ret |-> m[<<s1, s2>>], memo |-> m]
    ELSE IF Len(s1) = 0 THEN [ret |-> Len(s2), memo |-> m]
    ELSE IF Len(s2) = 0 THEN [ret |-> Len(s1), memo |-> m]
    ELSE IF s1[1] = s2[1] THEN
        LET sub == calculate_distance_TailKey(Tail(s1), Tail(s2), m)
        IN  [ret |-> sub.ret,
             memo |-> MemoPut(sub.memo, <<Tail(s1), Tail(s2)>>, sub.ret)]
    ELSE
        LET delete == calculate_distance_TailKey(Tail(s1), s2, m)
            insert == calculate_distance_TailKey(s1, Tail(s2), delete.memo)
            replace == calculate_distance_TailKey(Tail(s1), Tail(s2), insert.memo)
            val == 1 + Min(delete.ret, Min(insert.ret, replace.ret))
        IN  [ret |-> val,
             memo |-> MemoPut(replace.memo, <<Tail(s1), Tail(s2)>>, val)]

\* calculate_distance without the delete alternative
RECURSIVE calculate_distance_NoDelete(_, _, _)
calculate_distance_NoDelete(s1, s2, m) ==
    IF <<s1, s2>> \in DOMAIN m THEN [ret |-> m[<<s1, s2>>], memo |-> m]
    ELSE IF Len(s1) = 0 THEN [ret |-> Len(s2), memo |-> m]
    ELSE IF Len(s2) = 0 THEN [ret |-> Len(s1), memo |-> m]
    ELSE IF s1[1] = s2[1] THEN
        LET sub == calculate_distance_NoDelete(Tail(s1), Tail(s2), m)
        IN  [ret |-> sub.ret, memo |-> MemoPut(sub.memo, <<s1, s2>>, sub.ret)]
    ELSE
        LET insert == calculate_distance_NoDelete(s1, Tail(s2), m)
            replace == calculate_distance_NoDelete(Tail(s1), Tail(s2), insert.memo)
            val == 1 + Min(insert.ret, replace.ret)
        IN  [ret |-> val, memo |-> MemoPut(replace.memo, <<s1, s2>>, val)]

\* calculate_distance without the replace alternative
RECURSIVE calculate_distance_NoReplace(_, _, _)
calculate_distance_NoReplace(s1, s2, m) ==
    IF <<s1, s2>> \in DOMAIN m THEN [ret |-> m[<<s1, s2>>], memo |-> m]
    ELSE IF Len(s1) = 0 THEN [ret |-> Len(s2), memo |-> m]
    ELSE IF Len(s2) = 0 THEN [ret |-> Len(s1), memo |-> m]
    ELSE IF s1[1] = s2[1] THEN
        LET sub == calculate_distance_NoReplace(Tail(s1), Tail(s2), m)
        IN  [ret |-> sub.ret, memo |-> MemoPut(sub.memo, <<s1, s2>>, sub.ret)]
    ELSE
        LET delete == calculate_distance_NoReplace(Tail(s1), s2, m)
            insert == calculate_distance_NoReplace(s1, Tail(s2), delete.memo)
            val == 1 + Min(delete.ret, insert.ret)
        IN  [ret |-> val, memo |-> MemoPut(insert.memo, <<s1, s2>>, val)]

\* calculate_distance without the case of equal first characters
RECURSIVE calculate_distance_NoEqualCase(_, _, _)
calculate_distance_NoEqualCase(s1, s2, m) ==
    IF <<s1, s2>> \in DOMAIN m THEN [ret |-> m[<<s1, s2>>], memo |-> m]
    ELSE IF Len(s1) = 0 THEN [ret |-> Len(s2), memo |-> m]
    ELSE IF Len(s2) = 0 THEN [ret |-> Len(s1), memo |-> m]
    ELSE
        LET delete == calculate_distance_NoEqualCase(Tail(s1), s2, m)
            insert == calculate_distance_NoEqualCase(s1, Tail(s2), delete.memo)
            replace == calculate_distance_NoEqualCase(Tail(s1), Tail(s2), insert.memo)
            val == 1 + Min(delete.ret, Min(insert.ret, replace.ret))
        IN  [ret |-> val, memo |-> MemoPut(replace.memo, <<s1, s2>>, val)]

\* the value of a local variable: the one element of {body : x \in {value}}
\* is the body with x standing for the value, which is computed once
TheOnly(S) == CHOOSE r \in S : TRUE

\* "return memo[(string1, string2)]" with the dictionary the call leaves
Stored(m2, key) == [ret |-> m2[key], memo |-> m2]

RECURSIVE calculate_distance(_, _, _)
calculate_distance(s1, s2, m) ==
    IF <<s1, s2>> \in DOMAIN m THEN [ret |-> m[<<s1, s2>>], memo |-> m]
    ELSE IF Len(s1) = 0 THEN [ret |-> Len(s2), memo |-> m]
    ELSE IF Len(s2) = 0 THEN [ret |-> Len(s1), memo |-> m]
    ELSE IF s1[1] = s2[1] THEN
        TheOnly({
            Stored(MemoPut(sub.memo, <<s1, s2>>, sub.ret), <<s1, s2>>)
            : sub \in {calculate_distance(Tail(s1), Tail(s2), m)}})
    ELSE
        TheOnly({
        TheOnly({
        TheOnly({
            Stored(MemoPut(replace.memo, <<s1, s2>>,
                           1 + Min(delete.ret, Min(insert.ret, replace.ret))),
                   <<s1, s2>>)
            : replace \in {calculate_distance(Tail(s1), Tail(s2), insert.memo)}})
            : insert \in {calculate_distance(s1, Tail(s2), delete.memo)}})
            : delete \in {calculate_distance(Tail(s1), s2, m)}})

\* a call without a memo argument: memo is None, so a new dictionary is made
CalculateDistanceCall(s1, s2) == calculate_distance(s1, s2, EmptyMemo)

(***************************************************************************)
(* count_matches(string1, string2).                                        *)
(***************************************************************************)
\* Counter(s): character -> number of occurrences, for the characters of s
Counter(s) ==
    [c \in {s[i] : i \in DOMAIN s} |-> Cardinality({i \in DOMAIN s : s[i] = c})]

\* Counter & Counter: the minimum of the counts, for the characters of both
CounterAnd(c1, c2) ==
    [c \in DOMAIN c1 \cap DOMAIN c2 |-> Min(c1[c], c2[c])]

\* sum(counter.values())
RECURSIVE SumOver(_, _)
SumOver(f, keys) ==
    IF keys = {} THEN 0
    ELSE LET k == CHOOSE x \in keys : TRUE
         IN  f[k] + SumOver(f, keys \ {k})
SumValues(f) == SumOver(f, DOMAIN f)

\* the largest power of two that is at most n (n >= 1)
RECURSIVE Pow2Floor(_)
Pow2Floor(n) == IF n < 2 THEN 1 ELSE 2 * Pow2Floor(n \div 2)

(***************************************************************************)
(* int(n * 0.7) in binary64 arithmetic.  The literal 0.7 is the double     *)
(* (7 * 2^53 - 4) / (10 * 2^53), so the exact product is                   *)
(* 7n/10 - (4n/10) * 2^-53.  When 10 does not divide 7n the product lies   *)
(* strictly between two integers and rounding cannot reach either, so the  *)
(* truncation is 7n div 10.  When n = 10k the product is 7k - k * 2^-51:   *)
(* with 2^e <= 7k < 2^(e+1) the doubles below 7k are 2^(e-52) apart, and   *)
(* the product rounds to 7k when k * 2^-51 <= 2^(e-53) (a tie goes to 7k,  *)
(* whose last bit is 0), that is when 4k <= 2^e; otherwise it rounds to a  *)
(* double below 7k, which truncates to 7k - 1.                             *)
(***************************************************************************)
IntOfTimesThreshold(n) ==
    LET q == (7 * n) \div 10
        k == n \div 10
    IN  IF n = 0 \/ (7 * n) % 10 # 0 THEN q
        ELSE IF 4 * k > Pow2Floor(q) THEN q - 1
        ELSE q

min_matches(s1) == IntOfTimesThreshold(Len(s1))

\* count_matches over the sets of characters instead of the counters
count_matches_Sets(s1, s2) ==
    Cardinality({s1[i] : i \in DOMAIN s1} \cap {s2[i] : i \in DOMAIN s2}) >= min_matches(s1)

count_matches(s1, s2) ==
    LET string1_count == Counter(s1)
        string2_count == Counter(s2)
        matches == SumValues(CounterAnd(string1_count, string2_count))
    IN  matches >= min_matches(s1)

(***************************************************************************)
(* SpecFn: the helpers called directly on drawn arguments.                 *)
(***************************************************************************)
\* the movies table after create_tables, and no storage call made yet
StoreIdle ==
    /\ table = <<>>
    /\ next_id = 1
    /\ op = "none"
    /\ arg_title = ""
    /\ arg_user = 0
    /\ store_ret = FALSE
    /\ db_error = FALSE
    /\ listed = <<>>
    /\ got = <<>>

SearchIdle ==
    /\ movies = <<>>
    /\ pc = "menu"
    /\ user_query = <<>>
    /\ results = <<>>
    /\ similar_matches = <<>>
    /\ idx = 0
    /\ outcome = "none"
    /\ output = <<>>
    /\ cmCalls = 0
    /\ cdCalls = 0

InitFn ==
    /\ string1 = <<>>
    /\ string2 = <<>>
    /\ called = "none"
    /\ ret = 0
    /\ ret_matches = FALSE
    /\ memo = EmptyMemo
    /\ previous_memo = EmptyMemo
    /\ SearchIdle
    /\ StoreIdle

\* calculate_distance(a, b), called without a memo
CallCalculateDistance ==
    /\ called = "none"
    /\ \E a \in DistInputs, b \in DistInputs :
          /\ string1' = a
          /\ string2' = b
          /\ LET r == CalculateDistanceCall(a, b)
             IN  /\ ret' = r.ret
                 /\ memo' = r.memo
    /\ ret_matches' = FALSE
    /\ called' = "calculate_distance"
    /\ UNCHANGED <<previous_memo, searchVars, storeVars>>

\* count_matches(a, b)
CallCountMatches ==
    /\ called = "none"
    /\ \E a \in CountInputs, b \in CountInputs :
          /\ string1' = a
          /\ string2' = b
          /\ ret_matches' = count_matches(a, b)
    /\ ret' = 0
    /\ memo' = EmptyMemo
    /\ called' = "count_matches"
    /\ UNCHANGED <<previous_memo, searchVars, storeVars>>

\* the call has returned; the caller goes on to its next call
ReturnToCaller ==
    /\ called # "none"
    /\ string1' = <<>>
    /\ string2' = <<>>
    /\ called' = "none"
    /\ ret' = 0
    /\ ret_matches' = FALSE
    /\ memo' = EmptyMemo
    /\ UNCHANGED <<previous_memo, searchVars, storeVars>>

NextFn == CallCalculateDistance \/ CallCountMatches \/ ReturnToCaller

SpecFn == InitFn /\ [][NextFn]_vars

(***************************************************************************)
(* Top-level calls of calculate_distance one after another: the dictionary *)
(* an earlier call has filled is still there when the next call starts.    *)
(***************************************************************************)
MaxMemoLen == 2
MemoChars == {"a", "b"}
MemoInputs == StringsOver(MemoChars, 0, MaxMemoLen)

\* a parameter default that is one dictionary, made with the function
NewMemo_Default(left) == left

\* memo=None and "if memo is None: memo = {}": the call gets a new
\* dictionary, whatever an earlier call has left behind
NewMemo(left) == EmptyMemo

\* calculate_distance(a, b) without a memo, after any earlier such calls
MemoCall ==
    /\ called \in {"none", "calculate_distance"}
    /\ \E a \in MemoInputs, b \in MemoInputs :
          /\ string1' = a
          /\ string2' = b
          /\ LET r == calculate_distance(a, b, NewMemo(memo))
             IN  /\ ret' = r.ret
                 /\ memo' = r.memo
    /\ previous_memo' = memo
    /\ ret_matches' = FALSE
    /\ called' = "calculate_distance"
    /\ UNCHANGED <<searchVars, storeVars>>

NextMemo == MemoCall

SpecMemo == InitFn /\ [][NextMemo]_vars

(***************************************************************************)
(* Spec: search_movie(movies).  movies is a dictionary from title to       *)
(* rating; it is modelled as the sequence of its items in insertion order, *)
(* which is the order movies.items() yields them, with distinct titles.    *)
(***************************************************************************)
Titles == StringsOver(TitleChars, 1, MaxLen)
\* what the user may type at the prompt
Queries == StringsOver(TitleChars, 0, MaxLen)
Entries == [movie : Titles, rating : Ratings]
Catalogs ==
    {c \in UNION {[1..n -> Entries] : n \in 0..MaxMovies} :
        \A i, j \in DOMAIN c : i # j => c[i].movie # c[j].movie}

\* one longer title with its rating of 8.8, and a misspelling of it as a query
Inception == <<"I", "n", "c", "e", "p", "t", "i", "o", "n">>
Inzeption == <<"i", "n", "z", "e", "p", "t", "i", "o", "n">>
InceptionCatalog == <<[movie |-> Inception, rating |-> 88]>>

\* q in t, for two strings
IsSubstring(q, t) ==
    \E i \in 0..(Len(t) - Len(q)) : SubSeq(t, i + 1, i + Len(q)) = q

RECURSIVE Gcd(_, _)
Gcd(x, y) == IF y = 0 THEN x ELSE Gcd(y, x % y)

(***************************************************************************)
(* The float d / m.  For the lengths of a title the quotient of two        *)
(* integers determines the double and the double determines the quotient,  *)
(* so the float is kept as the fraction in lowest terms; m > 0 here.       *)
(***************************************************************************)
Quotient(d, m) == LET g == Gcd(d, m) IN [num |-> d \div g, den |-> m \div g]

\* the threshold test against 1.0
LeqThreshold_One(x) == x.num <= x.den

\* x <= 0.7 for a float x = d / m: the division is correctly rounded and
\* 0.7 is the double nearest to 7/10, so the test is that of the fractions
LeqThreshold(x) == 10 * x.num <= 7 * x.den

\* x < y, for two such floats
FloatLess(x, y) == x.num * y.den < y.num * x.den

\* the score printed as round(distance - 1, 2)
SimilarityScore_Swapped(x) == 0 - (100 * (x.den - x.num)) \div x.den

(***************************************************************************)
(* round(1 - distance, 2), in hundredths, for the float distance = d / m.  *)
(* The hundredth nearest to (m - d) / m; a quotient halfway between two    *)
(* hundredths goes to the even one, which is what round() does where the   *)
(* halfway value is a binary fraction (m = 8, 16, 32).  Checked against    *)
(* round() for every d <= m < 40; from m = 40 on a halfway quotient such   *)
(* as 39/40 is no binary fraction and round() may go the other way.        *)
(***************************************************************************)
SimilarityScore(x) ==
    LET n == 100 * (x.den - x.num)
        q == n \div x.den
        r == n % x.den
    IN  IF 2 * r < x.den THEN q
        ELSE IF 2 * r > x.den THEN q + 1
        ELSE IF q % 2 = 0 THEN q ELSE q + 1

\* the lines printed for the similar matches: title, rating and score
PrintedMatches(matches) ==
    [k \in DOMAIN matches |->
        [movie |-> matches[k].movie, rating |-> matches[k].rating,
         score |-> SimilarityScore(matches[k].distance)]]

(***************************************************************************)
(* list.sort(key=lambda x: x[2]): ascending by the key and stable, here as *)
(* an insertion sort that puts each element behind the elements whose key  *)
(* is not greater.                                                         *)
(***************************************************************************)
\* an insertion that puts an element before the elements of equal key
RECURSIVE InsertByDistance_BeforeEqual(_, _)
InsertByDistance_BeforeEqual(sorted, x) ==
    IF sorted = <<>> THEN <<x>>
    ELSE IF ~FloatLess(sorted[Len(sorted)].distance, x.distance)
         THEN Append(InsertByDistance_BeforeEqual(SubSeq(sorted, 1, Len(sorted) - 1), x),
                     sorted[Len(sorted)])
         ELSE Append(sorted, x)

RECURSIVE InsertByDistance(_, _)
InsertByDistance(sorted, x) ==
    IF sorted = <<>> THEN <<x>>
    ELSE IF FloatLess(x.distance, sorted[Len(sorted)].distance)
         THEN Append(InsertByDistance(SubSeq(sorted, 1, Len(sorted) - 1), x),
                     sorted[Len(sorted)])
         ELSE Append(sorted, x)

RECURSIVE SortByDistance(_)
SortByDistance(seq) ==
    IF seq = <<>> THEN <<>>
    ELSE InsertByDistance(SortByDistance(SubSeq(seq, 1, Len(seq) - 1)), seq[Len(seq)])

\* the substring search against the titles as stored, not lowercased
SubstringResults_CaseSensitive(catalog, query) ==
    SelectSeq(catalog, LAMBDA e : IsSubstring(query, e.movie))

\* the list comprehension of the substring search over movies.items()
SubstringResults(catalog, query) ==
    SelectSeq(catalog, LAMBDA e : IsSubstring(query, lower(e.movie)))

\* the loop body without the count_matches test
FuzzyCandidate_NoPrefilter(query, e) ==
    LET movie_lower == lower(e.movie)
        distance == Quotient(CalculateDistanceCall(query, movie_lower).ret,
                             Max(Len(query), Len(movie_lower)))
    IN  IF LeqThreshold(distance)
        THEN <<[movie |-> e.movie, rating |-> e.rating, distance |-> distance]>>
        ELSE <<>>

\* the body of the fuzzy loop for one item: the item appended to
\* similar_matches, or nothing
FuzzyCandidate(query, e) ==
    LET movie_lower == lower(e.movie)
    IN  IF count_matches(query, movie_lower)
        THEN LET distance == Quotient(CalculateDistanceCall(query, movie_lower).ret,
                                      Max(Len(query), Len(movie_lower)))
             IN  IF LeqThreshold(distance)
                 THEN <<[movie |-> e.movie, rating |-> e.rating, distance |-> distance]>>
                 ELSE <<>>
        ELSE <<>>

FnIdle ==
    /\ string1 = <<>>
    /\ string2 = <<>>
    /\ called = "none"
    /\ ret = 0
    /\ ret_matches = FALSE
    /\ memo = EmptyMemo
    /\ previous_memo = EmptyMemo

Init ==
    /\ FnIdle
    /\ StoreIdle
    /\ movies \in Catalogs \cup {InceptionCatalog}
    /\ pc = "menu"
    /\ user_query = <<>>
    /\ results = <<>>
    /\ similar_matches = <<>>
    /\ idx = 0
    /\ outcome = "none"
    /\ output = <<>>
    /\ cmCalls = 0
    /\ cdCalls = 0

\* a search that also rewrites the titles of the catalog in lower case
SearchStart_LowercasesCatalog(typed) ==
    /\ pc = "menu"
    /\ LET query == lower(typed)
           found == SubstringResults(movies, query)
       IN  /\ user_query' = query
           /\ results' = found
           /\ IF found # <<>>
              THEN /\ output' = found
                   /\ outcome' = "exact"
                   /\ pc' = "done"
                   /\ idx' = 0
              ELSE /\ output' = <<>>
                   /\ outcome' = "none"
                   /\ pc' = "scan"
                   /\ idx' = 1
    /\ similar_matches' = <<>>
    /\ cmCalls' = 0
    /\ cdCalls' = 0
    /\ movies' = [i \in DOMAIN movies |->
                    [movie |-> lower(movies[i].movie), rating |-> movies[i].rating]]
    /\ UNCHANGED <<fnVars, storeVars>>

\* the prompt, the substring search and, when it finds something, its report
SearchStart(typed) ==
    /\ pc = "menu"
    /\ LET query == lower(typed)
           found == SubstringResults(movies, query)
       IN  /\ user_query' = query
           /\ results' = found
           /\ IF found # <<>>
              THEN /\ output' = found
                   /\ outcome' = "exact"
                   /\ pc' = "done"
                   /\ idx' = 0
              ELSE /\ output' = <<>>
                   /\ outcome' = "none"
                   /\ pc' = "scan"
                   /\ idx' = 1
    /\ similar_matches' = <<>>
    /\ cmCalls' = 0
    /\ cdCalls' = 0
    /\ UNCHANGED movies
    /\ UNCHANGED <<fnVars, storeVars>>

\* a pass of the loop that does not move on to the next item
ScanEntry_NoAdvance ==
    /\ pc = "scan"
    /\ idx <= Len(movies)
    /\ UNCHANGED vars

\* one pass of the loop over movies.items()
ScanEntry ==
    /\ pc = "scan"
    /\ idx <= Len(movies)
    /\ LET e == movies[idx]
           passes == count_matches(user_query, lower(e.movie))
       IN  /\ similar_matches' = similar_matches \o FuzzyCandidate(user_query, e)
           /\ cmCalls' = cmCalls + 1
           /\ cdCalls' = IF passes THEN cdCalls + 1 ELSE cdCalls
    /\ idx' = idx + 1
    /\ UNCHANGED <<movies, pc, user_query, results, outcome, output>>
    /\ UNCHANGED <<fnVars, storeVars>>

\* a report that takes the similar-matches branch whatever the list holds
Report_AlwaysSimilar ==
    /\ pc = "scan"
    /\ idx > Len(movies)
    /\ similar_matches' = SortByDistance(similar_matches)
    /\ output' = PrintedMatches(similar_matches')
    /\ outcome' = "fuzzy"
    /\ pc' = "done"
    /\ UNCHANGED <<movies, user_query, results, idx, cmCalls, cdCalls>>
    /\ UNCHANGED <<fnVars, storeVars>>

\* after the loop: the sorted similar matches, or the no-match message
Report ==
    /\ pc = "scan"
    /\ idx > Len(movies)
    /\ IF similar_matches # <<>>
       THEN /\ similar_matches' = SortByDistance(similar_matches)
            /\ output' = PrintedMatches(similar_matches')
            /\ outcome' = "fuzzy"
       ELSE /\ similar_matches' = similar_matches
            /\ output' = <<>>
            /\ outcome' = "nomatch"
    /\ pc' = "done"
    /\ UNCHANGED <<movies, user_query, results, idx, cmCalls, cdCalls>>
    /\ UNCHANGED <<fnVars, storeVars>>

\* search_movie returns to the menu loop and its locals are gone
BackToMenu ==
    /\ pc = "done"
    /\ pc' = "menu"
    /\ user_query' = <<>>
    /\ results' = <<>>
    /\ similar_matches' = <<>>
    /\ idx' = 0
    /\ outcome' = "none"
    /\ output' = <<>>
    /\ cmCalls' = 0
    /\ cdCalls' = 0
    /\ UNCHANGED movies
    /\ UNCHANGED <<fnVars, storeVars>>

Next ==
    \/ \E typed \in Queries \cup {Inzeption} : SearchStart(typed)
    \/ ScanEntry
    \/ Report
    \/ BackToMenu

Spec == Init /\ [][Next]_vars

\* search_movie runs on once it is past the prompt: nothing in the loop or
\* in the report waits for anything
MaxFairLen == 2
FairCatalogs ==
    {c \in Catalogs : \A i \in DOMAIN c : Len(c[i].movie) <= MaxFairLen}

InitFair ==
    /\ Init
    /\ movies \in FairCatalogs

FairSpec ==
    /\ InitFair
    /\ [][Next]_vars
    /\ WF_vars(ScanEntry)
    /\ WF_vars(Report)

(***************************************************************************)
(* The per-user storage: the movies table and the calls that read and      *)
(* write it.  A row is a record of its id, title, rating, note and         *)
(* user_id; the table lists its rows in the order of their ids.            *)
(***************************************************************************)
MaxRowId == 3
StoreTitles == {"Up", "Heat"}
StoreUsers == {1, 2}
StoreNotes == {"seen"}
\* an optional argument: <<>> is None, <<v>> is the value v
RatingArgs == {<<>>} \cup {<<r>> : r \in Ratings}
NoteArgs == {<<>>} \cup {<<n>> : n \in StoreNotes}

\* a WHERE clause that compares the title only
RowMatches_TitleOnly(row, title, user_id) == row.title = title

\* WHERE title = :title AND user_id = :user_id
RowMatches(row, title, user_id) ==
    /\ row.title = title
    /\ row.user_id = user_id

\* WHERE user_id = :user_id
RowsOfUser(rows, user_id) == SelectSeq(rows, LAMBDA row : row.user_id = user_id)

HasMatch(rows, title, user_id) ==
    \E i \in DOMAIN rows : RowMatches(rows[i], title, user_id)

\* the columns a listing or a lookup hands out
Shown(row) == [title |-> row.title, rating |-> row.rating, note |-> row.note]

\* the dictionary comprehension keyed by row.title: a title that is already
\* a key keeps its place and takes the values of the later row
RECURSIVE DictByTitle(_)
DictByTitle(rows) ==
    IF rows = <<>> THEN <<>>
    ELSE LET before == DictByTitle(SubSeq(rows, 1, Len(rows) - 1))
             last == Shown(rows[Len(rows)])
         IN  IF \E k \in DOMAIN before : before[k].title = last.title
             THEN [k \in DOMAIN before |->
                      IF before[k].title = last.title THEN last ELSE before[k]]
             ELSE Append(before, last)

\* the rows after UPDATE movies SET ... WHERE title = :title AND user_id = :user_id
UpdatedRows(rows, title, rating, note, user_id) ==
    [i \in DOMAIN rows |->
        IF RowMatches(rows[i], title, user_id)
        THEN [rows[i] EXCEPT
                 !.rating = IF rating # <<>> THEN rating[1] ELSE @,
                 !.note = IF note # <<>> THEN note[1] ELSE @]
        ELSE rows[i]]

\* a DELETE that takes no more than the first row it finds
RowsAfterDelete_FirstOnly(rows, title, user_id) ==
    LET keep == {i \in DOMAIN rows :
                    \/ ~ RowMatches(rows[i], title, user_id)
                    \/ \E j \in 1..(i - 1) : RowMatches(rows[j], title, user_id)}
        F[i \in 0..Len(rows)] ==
            IF i = 0 THEN <<>>
            ELSE IF i \in keep THEN Append(F[i - 1], rows[i]) ELSE F[i - 1]
    IN  F[Len(rows)]

\* the rows after DELETE FROM movies WHERE title = :title AND user_id = :user_id
RowsAfterDelete(rows, title, user_id) ==
    SelectSeq(rows, LAMBDA row : ~ RowMatches(row, title, user_id))

\* what a storage call leaves in the variables that hold the last call
Called(name, title, user_id, returned, error) ==
    /\ op' = name
    /\ arg_title' = title
    /\ arg_user' = user_id
    /\ store_ret' = returned
    /\ db_error' = error

\* add_movie: the INSERT names no imdb_id, a NOT NULL column without a
\* default, so the statement fails and the transaction is rolled back
AddMovie ==
    \E title \in StoreTitles, user_id \in StoreUsers :
        /\ Called("add_movie", title, user_id, FALSE, TRUE)
        /\ listed' = <<>>
        /\ got' = <<>>
        /\ UNCHANGED <<table, next_id>>
        /\ UNCHANGED <<fnVars, searchVars>>

\* add_movie_from_omdb: the lookup may fail; otherwise the title and the
\* rating OMDb answers with are inserted as a new row of the user
AddMovieFromOmdb ==
    \E title \in StoreTitles, user_id \in StoreUsers :
        /\ \/ /\ Called("add_movie_from_omdb", title, user_id, FALSE, FALSE)
              /\ UNCHANGED <<table, next_id>>
           \/ /\ next_id <= MaxRowId
              /\ \E found \in StoreTitles, rating \in Ratings :
                    table' = Append(table, [id |-> next_id, title |-> found,
                                            rating |-> rating, note |-> "",
                                            user_id |-> user_id])
              /\ next_id' = next_id + 1
              /\ Called("add_movie_from_omdb", title, user_id, TRUE, FALSE)
        /\ listed' = <<>>
        /\ got' = <<>>
        /\ UNCHANGED <<fnVars, searchVars>>

\* update_movie: nothing to update, a database error, or the UPDATE
UpdateMovie ==
    \E title \in StoreTitles, rating \in RatingArgs, note \in NoteArgs,
       user_id \in StoreUsers :
        /\ \/ /\ rating = <<>>
              /\ note = <<>>
              /\ Called("update_movie", title, user_id, FALSE, FALSE)
              /\ table' = table
           \/ /\ rating # <<>> \/ note # <<>>
              /\ Called("update_movie", title, user_id, FALSE, TRUE)
              /\ table' = table
           \/ /\ rating # <<>> \/ note # <<>>
              /\ table' = UpdatedRows(table, title, rating, note, user_id)
              /\ Called("update_movie", title, user_id,
                        HasMatch(table, title, user_id), FALSE)
        /\ listed' = <<>>
        /\ got' = <<>>
        /\ UNCHANGED next_id
        /\ UNCHANGED <<fnVars, searchVars>>

\* delete_movie: a database error, or the DELETE
DeleteMovie ==
    \E title \in StoreTitles, user_id \in StoreUsers :
        /\ \/ /\ Called("delete_movie", title, user_id, FALSE, TRUE)
              /\ table' = table
           \/ /\ table' = RowsAfterDelete(table, title, user_id)
              /\ Called("delete_movie", title, user_id,
                        HasMatch(table, title, user_id), FALSE)
        /\ listed' = <<>>
        /\ got' = <<>>
        /\ UNCHANGED next_id
        /\ UNCHANGED <<fnVars, searchVars>>

\* list_movies: the user's rows as a dictionary, or {} on a database error
ListMovies ==
    \E user_id \in StoreUsers :
        /\ \/ /\ Called("list_movies", "", user_id, FALSE, TRUE)
              /\ listed' = <<>>
           \/ /\ Called("list_movies", "", user_id, FALSE, FALSE)
              /\ listed' = DictByTitle(RowsOfUser(table, user_id))
        /\ got' = <<>>
        /\ UNCHANGED <<table, next_id>>
        /\ UNCHANGED <<fnVars, searchVars>>

\* get_movie: one row of that title and user (fetchone of a SELECT without
\* ORDER BY), or None when there is none or on a database error
GetMovie ==
    \E title \in StoreTitles, user_id \in StoreUsers :
        /\ \/ /\ Called("get_movie", title, user_id, FALSE, TRUE)
              /\ got' = <<>>
           \/ /\ ~ HasMatch(table, title, user_id)
              /\ Called("get_movie", title, user_id, FALSE, FALSE)
              /\ got' = <<>>
           \/ /\ Called("get_movie", title, user_id, FALSE, FALSE)
              /\ \E i \in DOMAIN table :
                    /\ RowMatches(table[i], title, user_id)
                    /\ got' = <<Shown(table[i])>>
        /\ listed' = <<>>
        /\ UNCHANGED <<table, next_id>>
        /\ UNCHANGED <<fnVars, searchVars>>

InitStore ==
    /\ FnIdle
    /\ SearchIdle
    /\ StoreIdle

NextStore ==
    \/ AddMovie
    \/ AddMovieFromOmdb
    \/ UpdateMovie
    \/ DeleteMovie
    \/ ListMovies
    \/ GetMovie

SpecStore == InitStore /\ [][NextStore]_vars

(***************************************************************************)
(* Reference notions the properties are stated with.                       *)
(***************************************************************************)
\* the edit distance by its recursive definition, without a memo
RECURSIVE Lev(_, _)
Lev(a, b) ==
    IF Len(a) = 0 THEN Len(b)
    ELSE IF Len(b) = 0 THEN Len(a)
    ELSE IF a[1] = b[1] THEN Lev(Tail(a), Tail(b))
    ELSE 1 + Min(Lev(Tail(a), b), Min(Lev(a, Tail(b)), Lev(Tail(a), Tail(b))))

\* t = pre \o q \o post for some pre and post
Contains(t, q) ==
    \E i \in 0..Len(t), j \in 1..(Len(t) + 1) :
        SubSeq(t, 1, i) \o q \o SubSeq(t, j, Len(t)) = t

LowerOf(c) ==
    IF c = "A" THEN "a" ELSE IF c = "B" THEN "b" ELSE IF c = "C" THEN "c"
    ELSE IF c = "I" THEN "i" ELSE c
Lowercased(s) == [i \in DOMAIN s |-> LowerOf(s[i])]

\* the characters of a string as a bag, and the size of the intersection of
\* two bags: A minus (A minus B) keeps of each element the smaller count
BagOfString(s) ==
    [c \in {s[i] : i \in DOMAIN s} |-> Cardinality({i \in DOMAIN s : s[i] = c})]
BagIntersectionSize(a, b) ==
    LET A == BagOfString(a)
        B == BagOfString(b)
    IN  BagCardinality(A (-) (A (-) B))

\* edit distance over the longer length is at most n tenths
WithinTenths(q, t, n) == 10 * Lev(q, t) <= n * Max(Len(q), Len(t))

\* the position of a title in the catalog
PositionOf(title) == CHOOSE i \in DOMAIN movies : movies[i].movie = title

\* the catalog entries a query hits by substring, as positions
SubstringHits == {i \in DOMAIN movies : Contains(Lowercased(movies[i].movie), user_query)}

\* the catalog entries that pass the pre-filter and the threshold
FuzzyHits ==
    {i \in DOMAIN movies :
        /\ count_matches(user_query, Lowercased(movies[i].movie))
        /\ WithinTenths(user_query, Lowercased(movies[i].movie), 7)}

\* the i-th smallest element of a set of numbers
RECURSIVE NthOf(_, _)
NthOf(S, i) ==
    LET least == CHOOSE x \in S : \A y \in S : x <= y
    IN  IF i = 1 THEN least ELSE NthOf(S \ {least}, i - 1)

InSearch == pc \in {"scan", "done"}

\* the arguments of the call are among the exhaustively drawn ones (the long
\* one-letter strings are drawn for the arithmetic of min_matches only)
ShortArguments == Len(string1) <= MaxStrLen /\ Len(string2) <= MaxStrLen

(***************************************************************************)
(* C1: when the lowercased query is a substring of at least one lowercased *)
(* title, the search ends at once with the exact outcome, reports exactly  *)
(* the entries whose lowercased title contains the query, in catalog       *)
(* order and with nothing but title and rating, and neither count_matches  *)
(* nor calculate_distance has been called.                                 *)
(***************************************************************************)
C1_ExactPathSkipsFuzzy ==
    (InSearch /\ SubstringHits # {}) =>
        /\ pc = "done"
        /\ outcome = "exact"
        /\ Len(output) = Cardinality(SubstringHits)
        /\ \A k \in DOMAIN output :
              /\ DOMAIN output[k] = {"movie", "rating"}
              /\ output[k] = movies[NthOf(SubstringHits, k)]
        /\ cmCalls = 0
        /\ cdCalls = 0
        /\ similar_matches = <<>>

C1_Witness ==
    /\ pc = "done"
    /\ outcome = "exact"
    /\ Len(movies) = 2
    /\ Len(output) = 1
    /\ output[1] = movies[2]
    /\ output[1].movie # user_query
    /\ Len(user_query) >= 2

(***************************************************************************)
(* C2: when the substring search finds nothing, the finished search has    *)
(* put every catalog entry to count_matches, its fuzzy matches are exactly *)
(* the entries that pass count_matches and whose edit distance over the    *)
(* longer length is at most 0.7, each once, and the outcome is no-match    *)
(* exactly when there is no such entry.                                    *)
(***************************************************************************)
C2_FuzzyMatchesAreTheAccepted ==
    (pc = "done" /\ SubstringHits = {}) =>
        /\ outcome \in {"fuzzy", "nomatch"}
        /\ cmCalls = Len(movies)
        /\ Len(output) = Cardinality(FuzzyHits)
        /\ {[movie |-> output[k].movie, rating |-> output[k].rating] : k \in DOMAIN output}
              = {movies[i] : i \in FuzzyHits}
        /\ (outcome = "nomatch") <=> (FuzzyHits = {})

C2_Witness ==
    /\ pc = "done"
    /\ outcome = "fuzzy"
    /\ Len(movies) = 2
    /\ Len(output) = 1
    /\ \E i \in DOMAIN movies :
          /\ ~count_matches(user_query, Lowercased(movies[i].movie))
          /\ WithinTenths(user_query, Lowercased(movies[i].movie), 7)

(***************************************************************************)
(* C3: no fuzzy match, collected or reported, has an edit distance over    *)
(* the longer length above 0.7.                                            *)
(***************************************************************************)
C3_NoMatchAboveThreshold ==
    /\ \A k \in DOMAIN similar_matches :
          WithinTenths(user_query, Lowercased(similar_matches[k].movie), 7)
    /\ outcome = "fuzzy" =>
          \A k \in DOMAIN output :
              WithinTenths(user_query, Lowercased(output[k].movie), 7)

C3_Witness ==
    /\ pc = "done"
    /\ outcome = "fuzzy"
    /\ \E k \in DOMAIN output :
          /\ Lev(user_query, Lowercased(output[k].movie)) = 2
          /\ Len(output[k].movie) = 3
    /\ \E i \in DOMAIN movies :
          /\ count_matches(user_query, Lowercased(movies[i].movie))
          /\ ~WithinTenths(user_query, Lowercased(movies[i].movie), 7)

(***************************************************************************)
(* C4: the reported fuzzy matches are in order of non-decreasing edit      *)
(* distance over the longer length, and two matches of equal such distance *)
(* are in the order of the catalog.                                        *)
(***************************************************************************)
NormLess(q, t1, t2) ==
    Lev(q, t1) * Max(Len(q), Len(t2)) < Lev(q, t2) * Max(Len(q), Len(t1))

C4_SortedAndStable ==
    outcome = "fuzzy" =>
        \A i, j \in DOMAIN output :
            i < j =>
                LET ti == Lowercased(output[i].movie)
                    tj == Lowercased(output[j].movie)
                IN  /\ ~NormLess(user_query, tj, ti)
                    /\ ~NormLess(user_query, ti, tj) =>
                          PositionOf(output[i].movie) < PositionOf(output[j].movie)

C4_Witness ==
    /\ outcome = "fuzzy"
    /\ Len(output) = 2
    /\ similar_matches[1].distance = similar_matches[2].distance
    /\ Len(output[1].movie) # Len(output[2].movie)
    /\ output[1].movie = movies[1].movie

\* the sort has moved the later catalog entry to the front
C4_ReorderedWitness ==
    /\ outcome = "fuzzy"
    /\ Len(output) = 2
    /\ output[1].movie = movies[2].movie
    /\ similar_matches[1].distance # similar_matches[2].distance

(***************************************************************************)
(* C5, as stated: whenever the edit distance over the longer length of a   *)
(* non-empty query and title is at most 0.7, count_matches is true.        *)
(***************************************************************************)
C5_PrefilterAdmitsAllAccepted ==
    (/\ called = "count_matches"
     /\ string1 # <<>>
     /\ string2 # <<>>
     /\ ShortArguments
     /\ WithinTenths(string1, string2, 7)) => ret_matches

(***************************************************************************)
(* C5, amended: whenever the edit distance over the longer length of a     *)
(* non-empty query and title is at most 0.3, count_matches is true.        *)
(***************************************************************************)
C5_PrefilterAdmitsNear ==
    (/\ called = "count_matches"
     /\ string1 # <<>>
     /\ string2 # <<>>
     /\ ShortArguments
     /\ WithinTenths(string1, string2, 3)) => ret_matches

C5_Witness ==
    /\ called = "count_matches"
    /\ Len(string1) = 4
    /\ string1 # string2
    /\ ShortArguments
    /\ WithinTenths(string1, string2, 3)
    /\ ret_matches

(***************************************************************************)
(* C6: calculate_distance, computed with its memo, returns the value of    *)
(* the recursive definition without a memo.                                *)
(***************************************************************************)
C6_MemoizedEqualsRecursive ==
    called = "calculate_distance" => ret = Lev(string1, string2)

C6_Witness ==
    /\ called = "calculate_distance"
    /\ Len(string1) = 4
    /\ Len(string2) = 4
    /\ ret = 3
    /\ Cardinality(DOMAIN memo) >= 10

(***************************************************************************)
(* C7: for non-empty a and b, calculate_distance(a, b) is                  *)
(* calculate_distance(b, a).                                               *)
(***************************************************************************)
C7_Symmetric ==
    (called = "calculate_distance" /\ string1 # <<>> /\ string2 # <<>>) =>
        ret = CalculateDistanceCall(string2, string1).ret

C7_Witness ==
    /\ called = "calculate_distance"
    /\ Len(string1) = 2
    /\ Len(string2) = 4
    /\ string1[1] # string2[1]
    /\ ret = 3

(***************************************************************************)
(* C8: calculate_distance(a, b) is at least the difference of the lengths  *)
(* and at most the longer length.                                          *)
(***************************************************************************)
C8_LengthBounds ==
    called = "calculate_distance" =>
        /\ ret >= Len(string1) - Len(string2)
        /\ ret >= Len(string2) - Len(string1)
        /\ ret <= Max(Len(string1), Len(string2))

\* both bounds are met: the longer length, and elsewhere the difference
C8_Witness ==
    /\ called = "calculate_distance"
    /\ Len(string1) = 3
    /\ Len(string2) = 4
    /\ ret = 4

C8_LowerBoundWitness ==
    /\ called = "calculate_distance"
    /\ Len(string1) = 4
    /\ Len(string2) = 2
    /\ ret = 2

(***************************************************************************)
(* C9: calculate_distance(a, a) is 0.                                      *)
(***************************************************************************)
C9_IdentityIsZero ==
    (called = "calculate_distance" /\ string1 = string2) => ret = 0

C9_Witness ==
    /\ called = "calculate_distance"
    /\ string1 = string2
    /\ Len(string1) = 4
    /\ Cardinality({string1[i] : i \in DOMAIN string1}) = 3

(***************************************************************************)
(* C10: count_matches(query, title) is true exactly when the characters    *)
(* the two strings share, counted with multiplicity, number at least       *)
(* floor(0.7 * len(query)); for a query shorter than 2 every non-empty     *)
(* title passes.                                                           *)
(***************************************************************************)
C10_CountMatchesIsFloorRule ==
    called = "count_matches" =>
        /\ ret_matches <=>
              (BagIntersectionSize(string1, string2) >= (7 * Len(string1)) \div 10)
        /\ (Len(string1) < 2 /\ string2 # <<>>) => ret_matches

(***************************************************************************)
(* C11: a search with an empty query ends with an invalid-input outcome    *)
(* and reports no catalog entry, without a substring or fuzzy search.      *)
(***************************************************************************)
C11_EmptyQueryRejected ==
    (pc = "done" /\ user_query = <<>>) =>
        /\ outcome = "invalid"
        /\ output = <<>>
        /\ results = <<>>
        /\ cmCalls = 0

(***************************************************************************)
(* C12: over an empty catalog a search with a non-empty query ends with    *)
(* the no-match outcome, and reports no exact and no fuzzy match.          *)
(***************************************************************************)
C12_EmptyCatalogNoMatch ==
    (InSearch /\ movies = <<>> /\ user_query # <<>>) =>
        /\ results = <<>>
        /\ similar_matches = <<>>
        /\ output = <<>>
        /\ pc = "done" => outcome = "nomatch"

C12_Witness ==
    /\ pc = "done"
    /\ movies = <<>>
    /\ Len(user_query) = 2
    /\ outcome = "nomatch"

(***************************************************************************)
(* C13, as stated: for the catalog of Inception (8.8) and the query        *)
(* inzeption the search ends with the single fuzzy match Inception, of     *)
(* edit distance 2 over length 9 and score 0.78.                           *)
(***************************************************************************)
InceptionSearched ==
    /\ pc = "done"
    /\ movies = InceptionCatalog
    /\ user_query = Inzeption

C13_InceptionDistanceTwo ==
    InceptionSearched =>
        /\ outcome = "fuzzy"
        /\ Len(similar_matches) = 1
        /\ similar_matches[1].distance = [num |-> 2, den |-> 9]
        /\ output = <<[movie |-> Inception, rating |-> 88, score |-> 78]>>

(***************************************************************************)
(* C13, amended: for the catalog of Inception (8.8) and the query          *)
(* inzeption the search ends with the single fuzzy match Inception, of     *)
(* edit distance 1 over length 9 and score 0.89.                           *)
(***************************************************************************)
C13_InceptionDistanceOne ==
    InceptionSearched =>
        /\ outcome = "fuzzy"
        /\ results = <<>>
        /\ Len(similar_matches) = 1
        /\ similar_matches[1].distance = [num |-> 1, den |-> 9]
        /\ output = <<[movie |-> Inception, rating |-> 88, score |-> 89]>>

C13_Witness ==
    /\ InceptionSearched
    /\ cmCalls = 1
    /\ cdCalls = 1

(***************************************************************************)
(* C14: the score of every reported fuzzy match is between 0 and 1, and    *)
(* is 1 minus the edit distance over the longer length, to the hundredth.  *)
(***************************************************************************)
C14_ScoreInUnitInterval ==
    outcome = "fuzzy" =>
        \A k \in DOMAIN output :
            LET t == Lowercased(output[k].movie)
                m == Max(Len(user_query), Len(t))
                exact == 100 * (m - Lev(user_query, t))
                diff == exact - output[k].score * m
            IN  /\ output[k].score >= 0
                /\ output[k].score <= 100
                /\ 2 * diff <= m
                /\ 2 * diff >= 0 - m

C14_Witness ==
    /\ outcome = "fuzzy"
    /\ Len(output) = 2
    /\ output[1].score = 67
    /\ output[2].score = 33

(***************************************************************************)
(* C17: no step of a search changes the catalog.                           *)
(***************************************************************************)
C17_CatalogUnchanged == [][movies' = movies]_vars

C17_Witness ==
    /\ pc = "done"
    /\ outcome = "fuzzy"
    /\ Len(movies) = 2
    /\ Len(output) = 2
    /\ \E i \in DOMAIN movies : movies[i].movie # Lowercased(movies[i].movie)

IsSuffixOf(s, t) == \E k \in 0..Len(t) : s = SubSeq(t, k + 1, Len(t))

C16_MemoDoesNotLeak ==
    called = "calculate_distance" =>
        /\ ret = CalculateDistanceCall(string1, string2).ret
        /\ ret = Lev(string1, string2)
        /\ \A key \in DOMAIN memo :
              /\ IsSuffixOf(key[1], string1)
              /\ IsSuffixOf(key[2], string2)
              /\ memo[key] = Lev(key[1], key[2])

\* an earlier call has left entries that are no suffix pairs of this call,
\* and this call has filled a memo of its own
C16_Witness ==
    /\ called = "calculate_distance"
    /\ memo # EmptyMemo
    /\ \E key \in DOMAIN previous_memo :
          /\ ~ IsSuffixOf(key[1], string1)
          /\ key \notin DOMAIN memo

(***************************************************************************)
(* Reference notions for the storage.                                      *)
(***************************************************************************)
\* the rows a call for this title and user must leave alone
OtherRows(rows, title, user_id) ==
    SelectSeq(rows, LAMBDA row : row.title # title \/ row.user_id # user_id)

HasRowFor(rows, title, user_id) ==
    \E i \in DOMAIN rows : rows[i].title = title /\ rows[i].user_id = user_id

(***************************************************************************)
(* C15: a listing that feeds the search drops no stored entry: it has one  *)
(* entry for each row of the user, two rows of one title included.         *)
(***************************************************************************)
C15_DuplicateTitlesKept ==
    (op = "list_movies" /\ ~ db_error) =>
        /\ Len(listed) = Len(RowsOfUser(table, arg_user))
        /\ \A i \in DOMAIN table :
              table[i].user_id = arg_user =>
                  \E k \in DOMAIN listed :
                      /\ listed[k].title = table[i].title
                      /\ listed[k].rating = table[i].rating

(***************************************************************************)
(* C19: delete_movie and update_movie change only rows of their title and  *)
(* user: all other rows stay as they are, and the listing of every other   *)
(* user is what it was.                                                    *)
(***************************************************************************)
C19_OnlyMatchingRowsAffected ==
    [][op' \in {"delete_movie", "update_movie"} =>
          /\ OtherRows(table', arg_title', arg_user')
                = OtherRows(table, arg_title', arg_user')
          /\ \A u \in StoreUsers \ {arg_user'} :
                DictByTitle(RowsOfUser(table', u))
                    = DictByTitle(RowsOfUser(table, u))]_vars

\* a delete that took a row, with a row of the same title of another user
\* and a row of another title of the same user in the table
C19_Witness ==
    /\ op = "delete_movie"
    /\ store_ret
    /\ \E i \in DOMAIN table :
          table[i].title = arg_title /\ table[i].user_id # arg_user
    /\ \E i \in DOMAIN table :
          table[i].title # arg_title /\ table[i].user_id = arg_user

C19_UpdateWitness ==
    /\ op = "update_movie"
    /\ store_ret
    /\ \E i \in DOMAIN table :
          /\ table[i].title = arg_title
          /\ table[i].user_id = arg_user
          /\ table[i].note = "seen"
    /\ \E i \in DOMAIN table :
          /\ table[i].title = arg_title
          /\ table[i].user_id # arg_user
          /\ table[i].note = ""

(***************************************************************************)
(* C20: an update_movie or delete_movie that returns False leaves the      *)
(* table as it was; after a delete_movie that returns True the table has   *)
(* no row of that title and user, and a get_movie for them returns None.   *)
(***************************************************************************)
C20_FalseChangesNothing ==
    [][/\ (op' \in {"delete_movie", "update_movie"} /\ ~ store_ret') =>
              table' = table
       /\ (op' = "delete_movie" /\ store_ret') =>
              ~ HasRowFor(table', arg_title', arg_user')
       /\ (/\ op = "delete_movie"
           /\ store_ret
           /\ op' = "get_movie"
           /\ arg_title' = arg_title
           /\ arg_user' = arg_user) => got' = <<>>]_vars

\* a delete that returned True and took two rows of one title at once
C20_Witness ==
    /\ op = "delete_movie"
    /\ store_ret
    /\ next_id = 4
    /\ Len(table) = 1
    /\ table[1].id = 1

\* an update that returned False although the table has rows
C20_FalseWitness ==
    /\ op = "update_movie"
    /\ ~ store_ret
    /\ ~ db_error
    /\ Len(table) = 2

(***************************************************************************)
(* C21: after any calls of the storage the rows of one user have pairwise  *)
(* distinct titles, so a listing of the user has one entry for each of the *)
(* user's rows.                                                            *)
(***************************************************************************)
C21_TitlesDistinctPerUser ==
    /\ \A i, j \in DOMAIN table :
          (/\ i # j
           /\ table[i].user_id = table[j].user_id) =>
              table[i].title # table[j].title
    /\ \A u \in StoreUsers :
          Len(DictByTitle(RowsOfUser(table, u))) = Len(RowsOfUser(table, u))

====
